---- MODULE Spec2Model ----
(***************************************************************************)
(* Model of matstc/most-accurate-games: the ACPL ranking core              *)
(* (src/acpl/acpl.go) and its caller (src/main.go).                        *)
(*                                                                         *)
(* and the rate limiter (src/rate_limiter/rate_limiter.go).                *)
(*                                                                         *)
(* The specifications of this module:                                      *)
(*   SpecWalk    - computeACPL, one loop iteration per step;               *)
(*   Spec        - RankByACPL over the records the scanner yields,         *)
(*                 followed by retrieveResults;                            *)
(*   SpecScan    - bufio.Scanner driven by splitPGN over a byte stream;    *)
(*   SpecEval    - parseEval applied to a comment;                         *)
(*   SpecLimiter - the token bucket, its refill goroutine and concurrent   *)
(*                 requests (SpecLimiterFair adds the ticker's fairness);  *)
(*   SpecForm    - handleForm building the result rows.                    *)
(*                                                                         *)
(* float64 values are modelled exactly: a number is an integer count of    *)
(* hundredths of a pawn (= centipawns), NaN is a separate value.  The      *)
(* rounding of binary floating point is not modelled.                      *)
(***************************************************************************)
EXTENDS Integers, Sequences, FiniteSets, TLC

VARIABLES
  \* ---- computeACPL (SpecWalk)
  game, user, pc,
  isWhite, isBlack, i, totalLoss, count, prevEval, hasPrev,
  eval, loss, scored, ret,
  \* ---- RankByACPL and retrieveResults (Spec)
  username, minPlies, pcR, seen, out, result, results,
  \* ---- bufio.Scanner with splitPGN (SpecScan)
  stream, fails, pos, buf, start, bufLen, sErr, tokens, pcS,
  \* ---- parseEval (SpecEval)
  comment, parsed, pcE,
  \* ---- RateLimiter (SpecLimiter)
  burst, bucket, nextTok, reqs, ticks, refills,
  \* ---- handleForm (SpecForm)
  method, fetched, rows, message, pcF

walkVars == <<game, user, pc, isWhite, isBlack, i, totalLoss, count,
              prevEval, hasPrev, eval, loss, scored, ret>>

rankVars == <<username, minPlies, pcR, seen, out, result, results>>

scanVars == <<stream, fails, pos, buf, start, bufLen, sErr, tokens, pcS>>

evalVars == <<comment, parsed, pcE>>

limVars == <<burst, bucket, nextTok, reqs, ticks, refills>>

formVars == <<method, fetched, rows, message, pcF>>

moreVars == <<evalVars, limVars, formVars>>

vars == <<walkVars, rankVars, scanVars, moreVars>>

\* ------------------------------------------------------------------------
\* Bounds
\* ------------------------------------------------------------------------
MaxPlies == 3
MaxRecords == 3
MaxMinPlies == 3
MaxStream == 6
MaxTokens == 4
MaxBurst == 2
MaxRequests == 3
MaxTicks == 3
MaxFetched == 3

\* bufio's startBufSize (4096) and MaxScanTokenSize (64 * 1024), the sizes
\* bufio.NewScanner gives the scanner, scaled down to the streams explored
StartBufSize == 2
MaxScanTokenSize == 5

\* maxResults of main.go (50), scaled like the sizes above so that a result
\* list longer than the limit stays small
maxResults == 2

\* ------------------------------------------------------------------------
\* float64
\* ------------------------------------------------------------------------
Num(v) == [nan |-> FALSE, v |-> v]
NaN == [nan |-> TRUE, v |-> 0]

FSub(a, b) == IF a.nan \/ b.nan THEN NaN ELSE Num(a.v - b.v)
FAdd(a, b) == IF a.nan \/ b.nan THEN NaN ELSE Num(a.v + b.v)
FNeg(a) == IF a.nan THEN NaN ELSE Num(0 - a.v)
\* every ordered comparison with NaN is false
FLt(a, b) == ~a.nan /\ ~b.nan /\ a.v < b.v
FGt(a, b) == FLt(b, a)
FLe(a, b) == ~a.nan /\ ~b.nan /\ a.v <= b.v

\* totalLoss / float64(count), kept as an exact fraction
FDiv(a, n) == [nan |-> a.nan, num |-> a.v, den |-> n]
QZero == [nan |-> FALSE, num |-> 0, den |-> 1]
QLt(x, y) == ~x.nan /\ ~y.nan /\ x.num * y.den < y.num * x.den
QLe(x, y) == ~x.nan /\ ~y.nan /\ x.num * y.den <= y.num * x.den
QEq(x, y) == ~x.nan /\ ~y.nan /\ x.num * y.den = y.num * x.den

\* ------------------------------------------------------------------------
\* Comments.  A comment is a sequence of tokens: the marker "%eval ", "#",
\* a sign, a space, an unsigned numeral, "nan", or other text.
\* ------------------------------------------------------------------------
key == "%eval "

\* the value of each unsigned numeral, in hundredths of a pawn
Hundredths == [n \in {"0", "0.1", "0.2", "1.8", "12"} |->
                 CASE n = "0" -> 0
                   [] n = "0.1" -> 10
                   [] n = "0.2" -> 20
                   [] n = "1.8" -> 180
                   [] n = "12" -> 1200]
Numerals == DOMAIN Hundredths

\* strings.Index at token granularity: position of the first marker, 0 if
\* there is none (Go: -1)
Index(c, k) ==
  IF \E p \in 1..Len(c) : c[p] = k
  THEN CHOOSE p \in 1..Len(c) :
         c[p] = k /\ \A q \in 1..(p - 1) : c[q] # k
  ELSE 0

HasPrefix(s, prefix) ==
  Len(s) >= Len(prefix) /\ SubSeq(s, 1, Len(prefix)) = prefix

RECURSIVE SkipSpace(_)
SkipSpace(s) == IF s # <<>> /\ s[1] = " " THEN SkipSpace(Tail(s)) ELSE s

\* fmt.Sscanf(s, "%f", &v): skips leading spaces, then reads the longest
\* float token: "nan" (unsigned), or an optional sign and a numeral.  Text
\* after the token is left unread; a token that is no number is an error.
\* v is in hundredths of a pawn.  ("inf", which Sscanf also reads and the
\* clamp of computeACPL brings to 1000, is not among the tokens.)
Sscanf(s) ==
  LET t == SkipSpace(s) IN
  IF t = <<>> THEN [ok |-> FALSE, v |-> Num(0)]
  ELSE IF t[1] = "nan" THEN [ok |-> TRUE, v |-> NaN]
  ELSE LET signed == t[1] \in {"-", "+"}
           u == IF signed THEN Tail(t) ELSE t
       IN IF u # <<>> /\ u[1] \in Numerals
          THEN [ok |-> TRUE,
                v |-> Num(IF t[1] = "-" THEN 0 - Hundredths[u[1]]
                                        ELSE Hundredths[u[1]])]
          ELSE [ok |-> FALSE, v |-> Num(0)]

\* parseEval giving every mate to White
parseEval_MateUnsigned(c) ==
  LET p == Index(c, key) IN
  IF p = 0 THEN [eval |-> Num(0), ok |-> FALSE]
  ELSE LET s == SubSeq(c, p + 1, Len(c)) IN
       IF HasPrefix(s, <<"#">>) THEN [eval |-> Num(1000), ok |-> TRUE]
       ELSE LET r == Sscanf(s) IN
            IF ~r.ok THEN [eval |-> Num(0), ok |-> FALSE]
            ELSE [eval |-> r.v, ok |-> TRUE]

\* parseEval returns (float64, bool); v * 100 turns pawns into centipawns,
\* which is the count of hundredths Sscanf produced
parseEval(c) ==
  LET p == Index(c, key) IN
  IF p = 0 THEN [eval |-> Num(0), ok |-> FALSE]
  ELSE LET s == SubSeq(c, p + 1, Len(c)) IN
       IF HasPrefix(s, <<"#">>)
       THEN IF HasPrefix(s, <<"#", "-">>)
            THEN [eval |-> Num(0 - 1000), ok |-> TRUE]
            ELSE [eval |-> Num(1000), ok |-> TRUE]
       ELSE LET r == Sscanf(s) IN
            IF ~r.ok THEN [eval |-> Num(0), ok |-> FALSE]
            ELSE [eval |-> r.v, ok |-> TRUE]

\* ------------------------------------------------------------------------
\* Games as the external parser delivers them: tags (ordered pairs),
\* moves (their number) and comments (one list of comments per ply).
\* ------------------------------------------------------------------------
Tag(k, v) == [Key |-> k, Value |-> v]

\* strings.EqualFold on the names used here
Lower == [n \in {"", "alice", "Alice", "ALICE", "bob", "carol"} |->
            IF n \in {"Alice", "ALICE"} THEN "alice" ELSE n]
Names == DOMAIN Lower
EqualFold(a, b) == Lower[a] = Lower[b]

\* the loop over game.TagPairs() in computeACPL: every pair of the key
\* assigns, so the last one stays; "" when there is none
RECURSIVE TagLoop(_, _, _)
TagLoop(tags, k, acc) ==
  IF tags = <<>> THEN acc
  ELSE TagLoop(Tail(tags), k, IF tags[1].Key = k THEN tags[1].Value ELSE acc)

\* TagValue: the first pair of the key, "" when there is none
RECURSIVE TagValue(_, _)
TagValue(tags, k) ==
  IF tags = <<>> THEN ""
  ELSE IF tags[1].Key = k THEN tags[1].Value
  ELSE TagValue(Tail(tags), k)

Min(a, b) == IF a < b THEN a ELSE b

\* ------------------------------------------------------------------------
\* computeACPL: one iteration of the loop over the plies.
\* st holds totalLoss, count, prevEval, hasPrev; cs is comments[i].
\* The result also reports eval, loss and whether the ply was scored.
\* ------------------------------------------------------------------------
Clamp(e) ==
  IF FGt(e, Num(1000)) THEN Num(1000)
  ELSE IF FLt(e, Num(0 - 1000)) THEN Num(0 - 1000)
  ELSE e

PlayerMove(idx, w, b) ==
  LET whiteMove == idx % 2 = 0 IN (whiteMove /\ w) \/ (~whiteMove /\ b)

PlyLoss(prev, e, b) ==
  LET l0 == FSub(prev, e)
      l1 == IF b THEN FNeg(l0) ELSE l0
  IN IF FLt(l1, Num(0)) THEN Num(0) ELSE l1

\* the loop body with the baseline carried over from the player's own
\* plies only
WalkStep_OwnBaseline(st, cs, idx, w, b) ==
  LET idle == [st EXCEPT !.scored = FALSE] IN
  IF Len(cs) = 0 THEN idle
  ELSE LET pe == parseEval(cs[Len(cs)]) IN
       IF ~pe.ok THEN idle
       ELSE LET e == Clamp(pe.eval)
                own == PlayerMove(idx, w, b)
                sc == own /\ st.hasPrev
                l == PlyLoss(st.prevEval, e, b)
            IN [totalLoss |-> IF sc THEN FAdd(st.totalLoss, l) ELSE st.totalLoss,
                count |-> IF sc THEN st.count + 1 ELSE st.count,
                prevEval |-> IF own THEN e ELSE st.prevEval,
                hasPrev |-> IF own THEN TRUE ELSE st.hasPrev,
                eval |-> e,
                loss |-> IF sc THEN l ELSE st.loss,
                scored |-> sc]

\* lines 92-132: the body of the loop for ply idx with comments cs
WalkStep(st, cs, idx, w, b) ==
  LET idle == [st EXCEPT !.scored = FALSE] IN
  IF Len(cs) = 0 THEN idle
  ELSE LET pe == parseEval(cs[Len(cs)]) IN
       IF ~pe.ok THEN idle
       ELSE LET e == Clamp(pe.eval)
                sc == PlayerMove(idx, w, b) /\ st.hasPrev
                l == PlyLoss(st.prevEval, e, b)
            IN [totalLoss |-> IF sc THEN FAdd(st.totalLoss, l) ELSE st.totalLoss,
                count |-> IF sc THEN st.count + 1 ELSE st.count,
                prevEval |-> e,
                hasPrev |-> TRUE,
                eval |-> e,
                loss |-> IF sc THEN l ELSE st.loss,
                scored |-> sc]

WalkInit == [totalLoss |-> Num(0), count |-> 0, prevEval |-> Num(0),
             hasPrev |-> FALSE, eval |-> Num(0), loss |-> Num(0),
             scored |-> FALSE]

RECURSIVE WalkFrom(_, _, _, _, _)
WalkFrom(st, g, idx, w, b) ==
  IF idx < Min(g.moves, Len(g.comments))
  THEN WalkFrom(WalkStep(st, g.comments[idx + 1], idx, w, b), g, idx + 1, w, b)
  ELSE st

\* computeACPL with the side taken as Black whenever it is not White
computeACPL_BlackUnlessWhite(g, uname) ==
  LET w == EqualFold(TagLoop(g.tags, "White", ""), uname)
      b == ~w
  IN LET st == WalkFrom(WalkInit, g, 0, w, b) IN
     IF st.count = 0 THEN [acpl |-> QZero, ok |-> FALSE]
     ELSE [acpl |-> FDiv(st.totalLoss, st.count), ok |-> TRUE]

\* computeACPL without the test of count
computeACPL_NoCountTest(g, uname) ==
  LET w == EqualFold(TagLoop(g.tags, "White", ""), uname)
      b == EqualFold(TagLoop(g.tags, "Black", ""), uname)
  IN IF ~w /\ ~b THEN [acpl |-> QZero, ok |-> FALSE]
     ELSE LET st == WalkFrom(WalkInit, g, 0, w, b) IN
          [acpl |-> FDiv(st.totalLoss, st.count), ok |-> TRUE]

\* computeACPL as a function: (float64, bool)
computeACPL(g, uname) ==
  LET w == EqualFold(TagLoop(g.tags, "White", ""), uname)
      b == EqualFold(TagLoop(g.tags, "Black", ""), uname)
  IN IF ~w /\ ~b THEN [acpl |-> QZero, ok |-> FALSE]
     ELSE LET st == WalkFrom(WalkInit, g, 0, w, b) IN
          IF st.count = 0 THEN [acpl |-> QZero, ok |-> FALSE]
          ELSE [acpl |-> FDiv(st.totalLoss, st.count), ok |-> TRUE]

\* ------------------------------------------------------------------------
\* Inputs of SpecWalk
\* ------------------------------------------------------------------------
Ev(n) == <<"[", key, n, "]">>
EvNeg(n) == <<"[", key, "-", n, "]">>
Clk == <<"[", "%clk ", "x", "]">>

\* the comment lists a ply can carry
PlyComments ==
  { <<>>,
    <<Clk>>,
    <<Ev("0.2")>>,
    <<EvNeg("1.8")>>,
    <<Ev("12")>>,
    <<Ev("nan")>>,
    <<<<key, "#", "-", "x">>>>,
    <<Ev("0.1"), Clk>>,
    <<Clk, Ev("0.1")>> }

RECURSIVE SeqsUpTo(_, _)
SeqsUpTo(S, n) ==
  IF n = 0 THEN {<<>>}
  ELSE LET shorter == SeqsUpTo(S, n - 1) IN
       shorter \cup {Append(s, x) : s \in {t \in shorter : Len(t) = n - 1}, x \in S}

TagLists ==
  { <<Tag("White", "alice"), Tag("Black", "bob")>>,
    <<Tag("White", "bob"), Tag("Black", "ALICE")>>,
    <<Tag("White", "alice"), Tag("Black", "Alice")>>,
    <<Tag("White", "bob"), Tag("Black", "carol")>>,
    <<Tag("White", "bob"), Tag("White", "alice"), Tag("Black", "carol")>>,
    <<Tag("Site", "x")>> }

Usernames == {"alice", "carol", ""}

MkGame(tags, comments) ==
  [tags |-> tags, moves |-> Len(comments), comments |-> comments]

WalkGames == {MkGame(t, c) : t \in TagLists, c \in SeqsUpTo(PlyComments, MaxPlies)}

NoRet == [acpl |-> QZero, ok |-> FALSE]

\* ------------------------------------------------------------------------
\* SpecWalk: computeACPL step by step
\* ------------------------------------------------------------------------
WalkOff ==
  /\ game = MkGame(<<>>, <<>>)
  /\ user = ""
  /\ pc = "off"
  /\ isWhite = FALSE
  /\ isBlack = FALSE
  /\ i = 0
  /\ totalLoss = Num(0)
  /\ count = 0
  /\ prevEval = Num(0)
  /\ hasPrev = FALSE
  /\ eval = Num(0)
  /\ loss = Num(0)
  /\ scored = FALSE
  /\ ret = NoRet

NoResult == [games |-> <<>>, err |-> "nil"]

RankOff ==
  /\ username = ""
  /\ minPlies = 0
  /\ pcR = "off"
  /\ seen = <<>>
  /\ out = <<>>
  /\ result = NoResult
  /\ results = NoResult

ScanOff ==
  /\ stream = <<>>
  /\ fails = FALSE
  /\ pos = 0
  /\ buf = <<>>
  /\ start = 0
  /\ bufLen = 0
  /\ sErr = "nil"
  /\ tokens = <<>>
  /\ pcS = "off"

EvalOff ==
  /\ comment = <<>>
  /\ parsed = [eval |-> Num(0), ok |-> FALSE]
  /\ pcE = "off"

LimiterOff ==
  /\ burst = 0
  /\ bucket = <<>>
  /\ nextTok = 0
  /\ reqs = <<>>
  /\ ticks = 0
  /\ refills = 0

FormOff ==
  /\ method = ""
  /\ fetched = NoResult
  /\ rows = <<>>
  /\ message = <<>>
  /\ pcF = "off"

InitWalk ==
  /\ RankOff
  /\ ScanOff
  /\ EvalOff
  /\ LimiterOff
  /\ FormOff
  /\ game \in WalkGames
  /\ user \in Usernames
  /\ pc = "tags"
  /\ isWhite = FALSE
  /\ isBlack = FALSE
  /\ i = 0
  /\ totalLoss = Num(0)
  /\ count = 0
  /\ prevEval = Num(0)
  /\ hasPrev = FALSE
  /\ eval = Num(0)
  /\ loss = Num(0)
  /\ scored = FALSE
  /\ ret = NoRet

\* lines 65-80: read the tags, decide the side, return early on no match
WalkTags ==
  /\ pc = "tags"
  /\ LET w == EqualFold(TagLoop(game.tags, "White", ""), user)
         b == EqualFold(TagLoop(game.tags, "Black", ""), user)
     IN /\ isWhite' = w
        /\ isBlack' = b
        /\ pc' = IF ~w /\ ~b THEN "done" ELSE "loop"
  /\ UNCHANGED <<game, user, i, totalLoss, count, prevEval, hasPrev,
                 eval, loss, scored, ret>>
  /\ UNCHANGED <<rankVars, scanVars, moreVars>>

\* lines 92-132: one iteration
WalkPly ==
  /\ pc = "loop"
  /\ i < Min(game.moves, Len(game.comments))
  /\ LET st == [totalLoss |-> totalLoss, count |-> count,
                prevEval |-> prevEval, hasPrev |-> hasPrev,
                eval |-> eval, loss |-> loss, scored |-> scored]
         nx == WalkStep(st, game.comments[i + 1], i, isWhite, isBlack)
     IN /\ totalLoss' = nx.totalLoss
        /\ count' = nx.count
        /\ prevEval' = nx.prevEval
        /\ hasPrev' = nx.hasPrev
        /\ eval' = nx.eval
        /\ loss' = nx.loss
        /\ scored' = nx.scored
  /\ i' = i + 1
  /\ UNCHANGED <<game, user, pc, isWhite, isBlack, ret>>
  /\ UNCHANGED <<rankVars, scanVars, moreVars>>

\* lines 134-138: the result
WalkReturn ==
  /\ pc = "loop"
  /\ ~(i < Min(game.moves, Len(game.comments)))
  /\ ret' = IF count = 0 THEN [acpl |-> QZero, ok |-> FALSE]
            ELSE [acpl |-> FDiv(totalLoss, count), ok |-> TRUE]
  /\ pc' = "done"
  /\ UNCHANGED <<game, user, isWhite, isBlack, i, totalLoss, count,
                 prevEval, hasPrev, eval, loss, scored>>
  /\ UNCHANGED <<rankVars, scanVars, moreVars>>

NextWalk == WalkTags \/ WalkPly \/ WalkReturn

SpecWalk == InitWalk /\ [][NextWalk]_vars

\* ------------------------------------------------------------------------
\* Spec: RankByACPL over the records the scanner yields, called by
\* retrieveResults.  A record is blank (strings.TrimSpace(pgn) == ""),
\* malformed (chess.PGN returns an error) or a game.
\* ------------------------------------------------------------------------
Evals3(a, b, c) == <<<<a>>, <<b>>, <<c>>>>

RankGames ==
  LET ab == <<Tag("White", "alice"), Tag("Black", "bob")>>
      bA == <<Tag("White", "bob"), Tag("Black", "ALICE")>>
      aa == <<Tag("White", "alice"), Tag("Black", "Alice")>>
      bc == <<Tag("White", "bob"), Tag("Black", "carol")>>
  IN { MkGame(ab, Evals3(Ev("0.2"), EvNeg("1.8"), Ev("0.1"))),
       MkGame(ab, Evals3(Ev("0.1"), Ev("0.2"), Ev("12"))),
       MkGame(ab, Evals3(Ev("1.8"), Ev("0.2"), EvNeg("1.8"))),
       MkGame(ab, Evals3(Ev("0.2"), Ev("nan"), Ev("0.1"))),
       MkGame(ab, Evals3(Clk, Clk, Clk)),
       MkGame(bA, <<<<Ev("0.2")>>, <<Ev("1.8")>>>>),
       MkGame(bc, Evals3(Ev("0.2"), EvNeg("1.8"), Ev("0.1"))),
       MkGame(aa, Evals3(Ev("0.2"), EvNeg("1.8"), Ev("0.1"))),
       MkGame(<<Tag("Site", "x")>>, <<<<Ev("0.2")>>, <<Ev("1.8")>>>>) }

Records ==
  {[kind |-> "blank"], [kind |-> "malformed"]}
    \cup {[kind |-> "game", game |-> g] : g \in RankGames}

\* the body of the scanning loop without the test of minPlies
Consider_NoMinPlies(o, r, n, uname, minP) ==
  IF r.kind = "blank" THEN o
  ELSE IF r.kind = "malformed" THEN o
  ELSE LET c == computeACPL(r.game, uname) IN
       IF ~c.ok THEN o
       ELSE Append(o, [Game |-> r.game, ACPL |-> c.acpl, rec |-> n])

\* the body of the scanning loop for record r, the n-th one of the stream;
\* rec stands for the identity of the game object chess.NewGame returns
Consider(o, r, n, uname, minP) ==
  IF r.kind = "blank" THEN o
  ELSE IF r.kind = "malformed" THEN o
  ELSE IF r.game.moves < minP THEN o
  ELSE LET c == computeACPL(r.game, uname) IN
       IF ~c.ok THEN o
       ELSE Append(o, [Game |-> r.game, ACPL |-> c.acpl, rec |-> n])

\* the less function handed to sort.Slice
less(a, b) == QLt(a.ACPL, b.ACPL)

Perms(s) ==
  LET n == Len(s)
      bij == {f \in [1..n -> 1..n] : \A x, y \in 1..n : x # y => f[x] # f[y]}
  IN {[k \in 1..n |-> s[f[k]]] : f \in bij}

\* sort.Slice: the elements end up in an order that agrees with less; the
\* order of elements that less does not separate is not specified
\* ("not guaranteed to be stable").  With a NaN among the keys less is no
\* ordering at all (sort.Interface: "floating-point comparison is not a
\* transitive ordering when NaN values are involved") and the resulting
\* order is unspecified.
SortSlice(s) ==
  IF \E k \in 1..Len(s) : s[k].ACPL.nan THEN Perms(s)
  ELSE {p \in Perms(s) : \A x, y \in 1..Len(p) : x < y => ~less(p[y], p[x])}

ScannerErrs == {"nil", "read error", "token too long"}

InitRank ==
  /\ WalkOff
  /\ ScanOff
  /\ EvalOff
  /\ LimiterOff
  /\ FormOff
  /\ username \in Usernames
  /\ minPlies \in 0..MaxMinPlies
  /\ pcR = "fetch"
  /\ seen = <<>>
  /\ out = <<>>
  /\ result = NoResult
  /\ results = NoResult

\* retrieveResults, lines 57-70: the request fails, or answers with a
\* status outside 2xx, or delivers a body
Fetch ==
  /\ pcR = "fetch"
  /\ \E outcome \in {"get error", "bad status", "body"} :
       IF outcome = "body"
       THEN pcR' = "scan" /\ UNCHANGED results
       ELSE pcR' = "retrieved" /\ results' = [games |-> <<>>, err |-> outcome]
  /\ UNCHANGED <<username, minPlies, seen, out, result>>
  /\ UNCHANGED <<walkVars, scanVars, moreVars>>

\* RankByACPL, lines 147-173: scanner.Scan() yields a record; seen keeps the
\* records yielded so far, in order
ScanRecord ==
  /\ pcR = "scan"
  /\ Len(seen) < MaxRecords
  /\ \E r \in Records :
       /\ out' = Consider(out, r, Len(seen) + 1, username, minPlies)
       /\ seen' = Append(seen, r)
  /\ UNCHANGED <<username, minPlies, pcR, result, results>>
  /\ UNCHANGED <<walkVars, scanVars, moreVars>>

\* RankByACPL, lines 175-179: scanner.Scan() returns false; sort and return
\* out together with scanner.Err()
RankReturn ==
  /\ pcR = "scan"
  /\ \E e \in ScannerErrs, sorted \in SortSlice(out) :
       result' = [games |-> sorted, err |-> e]
  /\ pcR' = "ranked"
  /\ UNCHANGED <<username, minPlies, seen, out, results>>
  /\ UNCHANGED <<walkVars, scanVars, moreVars>>

\* retrieveResults handing on what RankByACPL returned
retrieveResults_PassThrough(res) == res

\* retrieveResults, lines 72-78: nil results with an error
retrieveResults(res) ==
  IF res.err # "nil" THEN [games |-> <<>>, err |-> res.err]
  ELSE [games |-> res.games, err |-> "nil"]

RetrieveReturn ==
  /\ pcR = "ranked"
  /\ results' = retrieveResults(result)
  /\ pcR' = "retrieved"
  /\ UNCHANGED <<username, minPlies, seen, out, result>>
  /\ UNCHANGED <<walkVars, scanVars, moreVars>>

Next == Fetch \/ ScanRecord \/ RankReturn \/ RetrieveReturn

Spec == InitRank /\ [][Next]_vars

\* ------------------------------------------------------------------------
\* SpecScan: the scanner of RankByACPL (bufio.NewScanner(r) with
\* scanner.Split(splitPGN)) reading a stream of bytes.  buf is the unread
\* part s.buf[s.start:s.end] of the scanner's buffer, start its offset and
\* bufLen the buffer's length.  The source delivers the stream in reads of
\* any size, then reports the end of the input, or a read error if fails.
\* Every read that reports nothing delivers at least one byte.
\* ------------------------------------------------------------------------
Bytes == {"\n", "a", "b"}
Delim == <<"\n", "\n", "\n">>

\* bytes.Index(data, "\n\n\n"): offset of the first delimiter, -1 if none
IndexDelim(data) ==
  IF \E p \in 1..(Len(data) - 2) : SubSeq(data, p, p + 2) = Delim
  THEN (CHOOSE p \in 1..(Len(data) - 2) :
          /\ SubSeq(data, p, p + 2) = Delim
          /\ \A q \in 1..(p - 1) : SubSeq(data, q, q + 2) # Delim) - 1
  ELSE 0 - 1

\* splitPGN: has tells a token from nil
splitPGN(data, atEOF) ==
  IF atEOF /\ Len(data) = 0
  THEN [advance |-> 0, token |-> <<>>, has |-> FALSE]
  ELSE LET idx == IndexDelim(data) IN
       IF idx >= 0
       THEN [advance |-> idx + 3, token |-> SubSeq(data, 1, idx), has |-> TRUE]
       ELSE IF atEOF
       THEN [advance |-> Len(data), token |-> data, has |-> TRUE]
       ELSE [advance |-> 0, token |-> <<>>, has |-> FALSE]

\* the attempt at the top of the loop of Scan
TrySplit ==
  IF Len(buf) > 0 \/ sErr # "nil"
  THEN splitPGN(buf, sErr # "nil")
  ELSE [advance |-> 0, token |-> <<>>, has |-> FALSE]

\* the offset of the data after the shift to the beginning of the buffer
ShiftedStart ==
  IF start > 0 /\ (start + Len(buf) = bufLen \/ start > bufLen \div 2)
  THEN 0 ELSE start

BufferFull == ShiftedStart + Len(buf) = bufLen

\* the length of the buffer after the resize of a full buffer
GrownLen ==
  IF ~BufferFull THEN bufLen
  ELSE Min(IF bufLen * 2 = 0 THEN StartBufSize ELSE bufLen * 2, MaxScanTokenSize)

\* scanner.Err()
Err == IF sErr = "EOF" THEN "nil" ELSE sErr

InitScan ==
  /\ WalkOff
  /\ RankOff
  /\ EvalOff
  /\ LimiterOff
  /\ FormOff
  /\ stream \in SeqsUpTo(Bytes, MaxStream)
  /\ fails \in BOOLEAN
  /\ pos = 0
  /\ buf = <<>>
  /\ start = 0
  /\ bufLen = 0
  /\ sErr = "nil"
  /\ tokens = <<>>
  /\ pcS = "scan"

\* Scan finds a token in what it holds and returns true; the loop of
\* RankByACPL takes it as the next record
ScanToken ==
  /\ pcS = "scan"
  /\ TrySplit.has
  /\ tokens' = Append(tokens, TrySplit.token)
  /\ buf' = SubSeq(buf, TrySplit.advance + 1, Len(buf))
  /\ start' = start + TrySplit.advance
  /\ UNCHANGED <<stream, fails, pos, bufLen, sErr, pcS>>
  /\ UNCHANGED <<walkVars, rankVars, moreVars>>

\* no token and the input has ended or failed: Scan returns false
ScanStop ==
  /\ pcS = "scan"
  /\ ~TrySplit.has
  /\ sErr # "nil"
  /\ start' = 0
  /\ buf' = <<>>
  /\ pcS' = "done"
  /\ UNCHANGED <<stream, fails, pos, bufLen, sErr, tokens>>
  /\ UNCHANGED <<walkVars, rankVars, moreVars>>

\* no token, the buffer is full and cannot grow: ErrTooLong, Scan returns
\* false
ScanTooLong ==
  /\ pcS = "scan"
  /\ ~TrySplit.has
  /\ sErr = "nil"
  /\ BufferFull
  /\ bufLen >= MaxScanTokenSize
  /\ sErr' = "token too long"
  /\ start' = ShiftedStart
  /\ pcS' = "done"
  /\ UNCHANGED <<stream, fails, pos, buf, bufLen, tokens>>
  /\ UNCHANGED <<walkVars, rankVars, moreVars>>

\* no token: shift, resize if full, and read n bytes; a read that reaches
\* the end of the stream may report the end (or the failure) at once
ScanRead ==
  /\ pcS = "scan"
  /\ ~TrySplit.has
  /\ sErr = "nil"
  /\ ~(BufferFull /\ bufLen >= MaxScanTokenSize)
  /\ \E n \in 0..Min(GrownLen - (ShiftedStart + Len(buf)), Len(stream) - pos),
        ended \in BOOLEAN :
       /\ ended => pos + n = Len(stream)
       /\ n = 0 => ended
       /\ buf' = buf \o SubSeq(stream, pos + 1, pos + n)
       /\ pos' = pos + n
       /\ sErr' = IF ~ended THEN "nil"
                  ELSE IF fails THEN "read error" ELSE "EOF"
  /\ start' = ShiftedStart
  /\ bufLen' = GrownLen
  /\ UNCHANGED <<stream, fails, tokens, pcS>>
  /\ UNCHANGED <<walkVars, rankVars, moreVars>>

NextScan == ScanToken \/ ScanStop \/ ScanTooLong \/ ScanRead

SpecScan == InitScan /\ [][NextScan]_vars

\* ------------------------------------------------------------------------
\* SpecEval: parseEval applied to one comment
\* ------------------------------------------------------------------------
EvalTokens == {key, "#", "-", " ", "12", "nan", "x"}

InitEval ==
  /\ WalkOff
  /\ RankOff
  /\ ScanOff
  /\ LimiterOff
  /\ FormOff
  /\ comment \in SeqsUpTo(EvalTokens, MaxTokens)
  /\ parsed = [eval |-> Num(0), ok |-> FALSE]
  /\ pcE = "call"

ParseEval ==
  /\ pcE = "call"
  /\ parsed' = parseEval(comment)
  /\ pcE' = "done"
  /\ UNCHANGED comment
  /\ UNCHANGED <<walkVars, rankVars, scanVars, limVars, formVars>>

NextEval == ParseEval

SpecEval == InitEval /\ [][NextEval]_vars

\* ========================================================================
\* Claims about parseEval (SpecEval)
\* ========================================================================
\* the position of the first marker of the comment is p
FirstMarkerAt(p) ==
  /\ p \in 1..Len(comment)
  /\ comment[p] = key
  /\ \A q \in 1..(p - 1) : comment[q] # key

\* C11: on an annotation whose text after the first "%eval " marker begins
\* with "#", parseEval returns -1000 when "-" follows the "#" and +1000
\* otherwise, whatever the mate distance; an annotation without the marker
\* returns no evaluation.
C11_MateBySignOnly ==
  pcE = "done" =>
    /\ (\A p \in 1..Len(comment) : comment[p] # key) => ~parsed.ok
    /\ \A p \in 1..(Len(comment) - 1) :
         (FirstMarkerAt(p) /\ comment[p + 1] = "#") =>
           /\ parsed.ok
           /\ parsed.eval = IF p + 2 <= Len(comment) /\ comment[p + 2] = "-"
                        THEN Num(0 - 1000) ELSE Num(1000)

\* a mate against White with a distance was parsed
C11_Witness ==
  /\ pcE = "done"
  /\ \E p \in 1..(Len(comment) - 3) :
       /\ FirstMarkerAt(p)
       /\ SubSeq(comment, p + 1, p + 3) = <<"#", "-", "12">>
  /\ parsed = [eval |-> Num(0 - 1000), ok |-> TRUE]

\* ========================================================================
\* Claims about the splitter (SpecScan)
\* ========================================================================
RECURSIVE Join(_)
Join(ts) ==
  IF ts = <<>> THEN <<>>
  ELSE IF Len(ts) = 1 THEN ts[1]
  ELSE ts[1] \o Delim \o Join(Tail(ts))

\* the records of a stream: the text before each delimiter, and what is
\* left after the last one unless empty
RECURSIVE SplitAll(_)
SplitAll(data) ==
  IF data = <<>> THEN <<>>
  ELSE LET idx == IndexDelim(data) IN
       IF idx < 0 THEN <<data>>
       ELSE <<SubSeq(data, 1, idx)>> \o SplitAll(SubSeq(data, idx + 4, Len(data)))

\* C5: joining the records emitted by the splitter with the delimiter
\* reproduces the stream, except that one trailing delimiter of the stream
\* may be missing.
C5_SplitRoundTrips ==
  (pcS = "done" /\ ~fails) =>
    \/ Join(tokens) = stream
    \/ Join(tokens) \o Delim = stream

\* C6: when the source never reports a read error, RankByACPL's scanner
\* ends with a nil error and every record of the stream was emitted,
\* whatever the length of a record.
C6_FailsOnlyOnReadFailure ==
  (pcS = "done" /\ ~fails) =>
    /\ Err = "nil"
    /\ tokens = SplitAll(stream)

\* ========================================================================
\* Claims about RankByACPL (Spec)
\* ========================================================================
Ranked == pcR \in {"ranked", "retrieved"}

Recs(games) == {games[x].rec : x \in 1..Len(games)}

\* the username equals, up to case, the value of a White or Black tag of
\* the game (a missing tag has the value "")
MatchesSide(g, uname) ==
  \E k \in {"White", "Black"} :
    \/ \E x \in 1..Len(g.tags) :
         g.tags[x].Key = k /\ EqualFold(g.tags[x].Value, uname)
    \/ (\A x \in 1..Len(g.tags) : g.tags[x].Key # k) /\ EqualFold("", uname)

\* ply idx of g carries an evaluation: its last comment parses
HasEval(g, idx) ==
  /\ idx < Len(g.comments)
  /\ g.comments[idx + 1] # <<>>
  /\ parseEval(g.comments[idx + 1][Len(g.comments[idx + 1])]).ok

\* the plies of the sides the username matches that carry an evaluation
\* and come after an evaluated ply
ScoredPlies(g, uname) ==
  {idx \in 0..(g.moves - 1) :
     /\ HasEval(g, idx)
     /\ \/ idx % 2 = 0 /\ EqualFold(TagLoop(g.tags, "White", ""), uname)
        \/ idx % 2 = 1 /\ EqualFold(TagLoop(g.tags, "Black", ""), uname)
     /\ \E j \in 0..(idx - 1) : HasEval(g, j)}

\* C1: the list RankByACPL returns is sorted ascending by ACPL: for any two
\* positions x < y, result[x].ACPL <= result[y].ACPL.
C1_SortedAscending ==
  Ranked =>
    \A x, y \in 1..Len(result.games) :
      x < y => QLe(result.games[x].ACPL, result.games[y].ACPL)

\* C2: two scored games with equal ACPL appear in the result in the order
\* in which their records were encountered in the stream.
C2_TiesKeepEncounterOrder ==
  Ranked =>
    \A x, y \in 1..Len(result.games) :
      (x < y /\ QEq(result.games[x].ACPL, result.games[y].ACPL))
        => result.games[x].rec < result.games[y].rec

\* C4 as stated: no outcome of RankByACPL holds both a non-empty result
\* list and a non-nil error.
C4_NoResultsWithError ==
  Ranked => ~(result.err # "nil" /\ result.games # <<>>)

\* C4 as amended: RankByACPL returns the scanner's error together with
\* every game scored from the records read before it, and its caller
\* retrieveResults drops the list: no outcome of retrieveResults holds
\* both a non-empty list and a non-nil error.
C4_CallerDropsResultsOnError ==
  /\ Ranked =>
       \/ results.err \in {"get error", "bad status"}
       \/ Recs(result.games) =
            {n \in 1..Len(seen) :
               /\ seen[n].kind = "game"
               /\ seen[n].game.moves >= minPlies
               /\ computeACPL(seen[n].game, username).ok}
  /\ pcR = "retrieved" =>
       /\ results.err # "nil" => results.games = <<>>
       /\ results.err \notin {"get error", "bad status"} =>
            results.err = result.err
       /\ results.err = "nil" => results.games = result.games

C4_Witness ==
  /\ pcR = "retrieved"
  /\ result.err = "read error"
  /\ result.games # <<>>
  /\ results = [games |-> <<>>, err |-> "read error"]

\* C7: a record in which the username matches neither the White nor the
\* Black tag value (case-insensitively) never appears in the output, and
\* every game in the output has the username as White or Black tag value.
C7_OnlyGamesOfTheUser ==
  \A games \in {out, result.games, results.games} :
    /\ \A x \in 1..Len(games) : MatchesSide(games[x].Game, username)
    /\ \A n \in 1..Len(seen) :
         (seen[n].kind = "game" /\ ~MatchesSide(seen[n].game, username))
           => n \notin Recs(games)

\* a game of other players that is long enough and would score for one of
\* them was read, and the output is not empty
C7_Witness ==
  /\ pcR = "retrieved"
  /\ results.games # <<>>
  /\ \E n \in 1..Len(seen) :
       /\ seen[n].kind = "game"
       /\ ~MatchesSide(seen[n].game, username)
       /\ seen[n].game.moves >= minPlies
       /\ \E other \in Names : computeACPL(seen[n].game, other).ok

\* C8: a record with fewer plies than minPlies never appears in the
\* output, whatever its tags and evaluations; every game in the output has
\* at least minPlies plies.
C8_NoShortGames ==
  \A games \in {out, result.games, results.games} :
    /\ \A x \in 1..Len(games) : games[x].Game.moves >= minPlies
    /\ \A n \in 1..Len(seen) :
         (seen[n].kind = "game" /\ seen[n].game.moves < minPlies)
           => n \notin Recs(games)

\* a game of the user that would be scored but is too short was read, and
\* the output is not empty
C8_Witness ==
  /\ pcR = "retrieved"
  /\ results.games # <<>>
  /\ \E n \in 1..Len(seen) :
       /\ seen[n].kind = "game"
       /\ seen[n].game.moves < minPlies
       /\ computeACPL(seen[n].game, username).ok

\* C9: a game in which no ply of the tracked player was scored yields no
\* entry in the output (rather than an entry with ACPL 0); every output
\* entry has at least one scored ply.
C9_NoUnscoredGames ==
  \A games \in {out, result.games, results.games} :
    /\ \A x \in 1..Len(games) :
         /\ ScoredPlies(games[x].Game, username) # {}
         /\ games[x].ACPL.den = Cardinality(ScoredPlies(games[x].Game, username))
    /\ \A n \in 1..Len(seen) :
         (seen[n].kind = "game" /\ ScoredPlies(seen[n].game, username) = {})
           => n \notin Recs(games)

\* a game of the user, long enough, with no scored ply was read, and the
\* output is not empty
C9_Witness ==
  /\ pcR = "retrieved"
  /\ results.games # <<>>
  /\ \E n \in 1..Len(seen) :
       /\ seen[n].kind = "game"
       /\ MatchesSide(seen[n].game, username)
       /\ seen[n].game.moves >= minPlies
       /\ ScoredPlies(seen[n].game, username) = {}

\* ========================================================================
\* Claims about computeACPL (SpecWalk)
\* ========================================================================
\* the game with its Black tags replaced by one that no username matches
WhiteOnly(g) ==
  [g EXCEPT !.tags = SelectSeq(g.tags, LAMBDA t : t.Key # "Black")
                       \o <<Tag("Black", "bob")>>]

SameResult(a, b) ==
  /\ a.ok = b.ok
  /\ a.ok => \/ a.acpl.nan /\ b.acpl.nan
             \/ QEq(a.acpl, b.acpl)

\* C3: when the username matches both the White and the Black tag,
\* computeACPL scores the game as White: only even-indexed plies are
\* scored, and the ACPL equals the one obtained for the same plies when the
\* username matches the White tag only.
C3_SelfPlayScoresAsWhite ==
  (isWhite /\ isBlack) =>
    /\ (pc = "loop" /\ scored) => (i - 1) % 2 = 0
    /\ pc = "done" => SameResult(ret, computeACPL(WhiteOnly(game), user))

InRange(e) == FLe(Num(0 - 1000), e) /\ FLe(e, Num(1000))

\* C10: throughout the walk every evaluation used as current value or as
\* baseline lies in [-1000, 1000], every loss added to the total lies in
\* [0, 2000], and the ACPL returned lies in [0, 2000].
C10_EvalsAndLossesInRange ==
  /\ InRange(eval)
  /\ hasPrev => InRange(prevEval)
  /\ scored => FLe(Num(0), loss) /\ FLe(loss, Num(2000))
  /\ (pc = "done" /\ ret.ok) =>
       /\ QLe(QZero, ret.acpl)
       /\ QLe(ret.acpl, [nan |-> FALSE, num |-> 2000, den |-> 1])

\* ========================================================================
\* Claims about skipped records (Spec)
\* ========================================================================
\* the scanning loop of RankByACPL run over the records recs
RECURSIVE ConsiderAll(_, _, _, _, _)
ConsiderAll(o, recs, n, uname, minP) ==
  IF n > Len(recs) THEN o
  ELSE ConsiderAll(Consider(o, recs[n], n, uname, minP), recs, n + 1,
                   uname, minP)

IsGameRecord(r) == r.kind = "game"

\* the returned list without the identity of the game objects
Listing(games) ==
  [k \in 1..Len(games) |-> [Game |-> games[k].Game, ACPL |-> games[k].ACPL]]

\* the results RankByACPL can return for the records recs
RankingsOf(recs, uname, minP) ==
  {Listing(p) : p \in SortSlice(ConsiderAll(<<>>, recs, 1, uname, minP))}

\* C12: for a stream whose source does not fail, RankByACPL returns a nil
\* error and the same result as for the same stream with the
\* whitespace-only and malformed records removed.
C12_SkippedRecordsAbsorbed ==
  (Ranked /\ result.err # "read error") =>
    /\ result.err = "nil"
    /\ Listing(result.games)
         \in RankingsOf(SelectSeq(seen, IsGameRecord), username, minPlies)

\* what remains of C12 when the scanner did not give up on a long record
C12_SkippedRecordsAbsorbedWithinLimit ==
  (Ranked /\ result.err = "nil") =>
    Listing(result.games)
      \in RankingsOf(SelectSeq(seen, IsGameRecord), username, minPlies)

\* ------------------------------------------------------------------------
\* SpecLimiter: the token bucket of RateLimiter, the refill goroutine of
\* NewRateLimiter and the requests passing through Middleware.  The channel
\* carries struct{} values; the model numbers them so that a token can be
\* followed from the bucket to the request that took it.
\* ------------------------------------------------------------------------
\* the buffered channel after "for i := 0; i < burst; i++ { tokens <- }"
FullBucket(cap) == [k \in 1..cap |-> k]

\* "case rl.tokens <- struct{}{}" of the refill loop without its default
\* branch taken into account: the token is added whatever the bucket holds
Refill_Unbounded(b, id, cap) == Append(b, id)

\* a refill loop that never sends
Refill_Never(b, id, cap) == b

\* the select of the refill loop: send if the channel has room, else the
\* default branch (bucket full)
Refill(b, id, cap) == IF Len(b) < cap THEN Append(b, id) ELSE b

\* a receive that leaves the token in the channel
Take_Peek(b) == b

\* "case <-rl.tokens": the channel after the receive
Take(b) == Tail(b)

NewRequest == [st |-> "arrived", tok |-> 0, forwarded |-> FALSE,
               code |-> 0, body |-> ""]

InitLimiter ==
  /\ WalkOff
  /\ RankOff
  /\ ScanOff
  /\ EvalOff
  /\ FormOff
  /\ burst \in 1..MaxBurst
  /\ bucket = FullBucket(burst)
  /\ nextTok = burst + 1
  /\ reqs = <<>>
  /\ ticks = 0
  /\ refills = 0

\* net/http starts the handler of a new request in a goroutine of its own
Arrive ==
  /\ Len(reqs) < MaxRequests
  /\ reqs' = Append(reqs, NewRequest)
  /\ UNCHANGED <<burst, bucket, nextTok, ticks, refills>>
  /\ UNCHANGED <<walkVars, rankVars, scanVars, evalVars, formVars>>

\* Middleware, lines 38-43: the select of request r
Middleware(r) ==
  /\ reqs[r].st = "arrived"
  /\ IF bucket # <<>>
     THEN /\ reqs' = [reqs EXCEPT ![r] = [@ EXCEPT !.st = "serving",
                                                   !.tok = Head(bucket),
                                                   !.forwarded = TRUE]]
          /\ bucket' = Take(bucket)
     ELSE /\ reqs' = [reqs EXCEPT ![r] = [@ EXCEPT
                                            !.st = "rejected",
                                            !.code = 429,
                                            !.body = "rate limit exceeded"]]
          /\ UNCHANGED bucket
  /\ UNCHANGED <<burst, nextTok, ticks, refills>>
  /\ UNCHANGED <<walkVars, rankVars, scanVars, evalVars, formVars>>

\* Middleware, line 40: next.ServeHTTP returns
Finish(r) ==
  /\ reqs[r].st = "serving"
  /\ reqs' = [reqs EXCEPT ![r] = [@ EXCEPT !.st = "done"]]
  /\ UNCHANGED <<burst, bucket, nextTok, ticks, refills>>
  /\ UNCHANGED <<walkVars, rankVars, scanVars, evalVars, formVars>>

\* NewRateLimiter, lines 24-30: one iteration of "for range ticker.C"
Tick ==
  /\ ticks < MaxTicks
  /\ ticks' = ticks + 1
  /\ bucket' = Refill(bucket, nextTok, burst)
  /\ refills' = IF bucket' # bucket THEN refills + 1 ELSE refills
  /\ nextTok' = IF bucket' # bucket THEN nextTok + 1 ELSE nextTok
  /\ UNCHANGED <<burst, reqs>>
  /\ UNCHANGED <<walkVars, rankVars, scanVars, evalVars, formVars>>

NextLimiter ==
  \/ Arrive
  \/ \E r \in 1..Len(reqs) : Middleware(r)
  \/ \E r \in 1..Len(reqs) : Finish(r)
  \/ Tick

SpecLimiter == InitLimiter /\ [][NextLimiter]_vars

\* the ticker keeps firing and the refill goroutine keeps being scheduled
SpecLimiterFair == SpecLimiter /\ WF_vars(Tick)

\* ========================================================================
\* Claims about the rate limiter (SpecLimiter, SpecLimiterFair)
\* ========================================================================
Requests == 1..Len(reqs)

Granted == {r \in Requests : reqs[r].tok # 0}

InBucket == {bucket[k] : k \in 1..Len(bucket)}

\* request r is handled by Middleware in this step
Handled(r) == r \in Requests /\ reqs[r].st = "arrived" /\ reqs'[r].st # "arrived"

\* C13: a request handled by Middleware is passed to the next handler
\* exactly when it takes one token from the bucket, and is otherwise
\* rejected at once with "rate limit exceeded" (HTTP 429) without being
\* queued or forwarded; under any interleaving of requests and refill ticks
\* no token is consumed by two requests.
C13_AcquireAtomic ==
  /\ [](/\ \A r \in Requests :
             /\ reqs[r].forwarded <=> reqs[r].tok # 0
             /\ reqs[r].st \in {"serving", "done"} <=> reqs[r].forwarded
             /\ reqs[r].st = "rejected" =>
                  reqs[r].code = 429 /\ reqs[r].body = "rate limit exceeded"
             /\ reqs[r].tok \notin InBucket
        /\ \A r1, r2 \in Granted : r1 # r2 => reqs[r1].tok # reqs[r2].tok)
  /\ [][\A r \in Requests : Handled(r) =>
          IF bucket # <<>>
          THEN /\ reqs'[r].forwarded
               /\ reqs'[r].tok = Head(bucket)
               /\ Len(bucket') = Len(bucket) - 1
          ELSE /\ reqs'[r].st = "rejected"
               /\ bucket' = bucket]_vars

\* two requests were granted and a later one rejected, with a refill in
\* between
C13_Witness ==
  /\ Cardinality(Granted) >= 2
  /\ \E r \in Requests : reqs[r].st = "rejected"
  /\ refills > 0

\* ========================================================================
\* Claims about the walk of computeACPL (SpecWalk)
\* ========================================================================
\* the plies the loop of computeACPL goes through
Plies(g) == 0..(Min(g.moves, Len(g.comments)) - 1)

\* the clamped evaluation of the last annotation of ply idx
EvalAt(g, idx) ==
  Clamp(parseEval(g.comments[idx + 1][Len(g.comments[idx + 1])]).eval)

EvaluatedBefore(g, idx) == {j \in 0..(idx - 1) : HasEval(g, j)}

\* the most recent evaluated ply before ply idx
LastEvaluatedBefore(g, idx) ==
  CHOOSE j \in EvaluatedBefore(g, idx) :
    \A k \in EvaluatedBefore(g, idx) : k <= j

\* ply idx is a ply of the tracked player: even plies are White's
OwnPly(idx) == IF idx % 2 = 0 THEN isWhite ELSE isBlack

ShouldScore(g, idx) ==
  /\ HasEval(g, idx)
  /\ OwnPly(idx)
  /\ EvaluatedBefore(g, idx) # {}

\* max(0, baseline - current) for a White ply, max(0, current - baseline)
\* for a Black ply
ExpectedLoss(g, idx) ==
  LET base == EvalAt(g, LastEvaluatedBefore(g, idx))
      cur == EvalAt(g, idx)
      d == IF idx % 2 = 0 THEN FSub(base, cur) ELSE FSub(cur, base)
  IN IF FLt(d, Num(0)) THEN Num(0) ELSE d

RECURSIVE ExpectedTotal(_, _)
ExpectedTotal(g, S) ==
  IF S = {} THEN Num(0)
  ELSE LET idx == CHOOSE x \in S : \A y \in S : y <= x
       IN FAdd(ExpectedTotal(g, S \ {idx}), ExpectedLoss(g, idx))

SameFloat(a, b) == (a.nan /\ b.nan) \/ (~a.nan /\ ~b.nan /\ a.v = b.v)

\* C14: computeACPL scores a ply exactly when its last annotation yields an
\* evaluation, the ply belongs to the tracked player's side by index parity
\* and some earlier ply yielded an evaluation; the loss of a scored ply is
\* max(0, baseline - current) for White and max(0, current - baseline) for
\* Black, and the ACPL returned is the sum of these losses divided by the
\* number of scored plies.
C14_ScoredPliesAndLosses ==
  /\ (pc = "loop" /\ i > 0) =>
       /\ scored <=> ShouldScore(game, i - 1)
       /\ scored => SameFloat(loss, ExpectedLoss(game, i - 1))
  /\ (pc = "done" /\ (isWhite \/ isBlack)) =>
       LET S == {idx \in Plies(game) : ShouldScore(game, idx)} IN
       /\ count = Cardinality(S)
       /\ ret.ok <=> S # {}
       /\ ret.ok => SameResult(ret, [ok |-> TRUE,
                                     acpl |-> FDiv(ExpectedTotal(game, S),
                                                   Cardinality(S))])

\* what remains of C14 when the username matches one side only
C14_ScoredPliesAndLossesOneSide ==
  ~(isWhite /\ isBlack) => C14_ScoredPliesAndLosses

\* C15: at every step of the walk the baseline is the clamped evaluation of
\* the most recent ply processed so far whose last annotation yielded an
\* evaluation, whichever side moved it; a ply with no annotation, or whose
\* last annotation yields no evaluation, leaves the baseline, the
\* accumulated loss and the scored-ply count unchanged.
C15_BaselineIsLastEvaluation ==
  /\ [](pc = "loop" =>
          /\ hasPrev <=> EvaluatedBefore(game, i) # {}
          /\ hasPrev =>
               SameFloat(prevEval,
                         EvalAt(game, LastEvaluatedBefore(game, i))))
  /\ [][(pc = "loop" /\ i' = i + 1 /\ ~HasEval(game, i)) =>
          UNCHANGED <<prevEval, hasPrev, totalLoss, count>>]_vars

\* the opponent's ply was evaluated and the player's ply after it was not:
\* the baseline is still the opponent's evaluation
C15_Witness ==
  /\ pc = "loop"
  /\ i >= 2
  /\ HasEval(game, i - 2)
  /\ ~OwnPly(i - 2)
  /\ ~HasEval(game, i - 1)
  /\ hasPrev
  /\ SameFloat(prevEval, EvalAt(game, i - 2))
  /\ prevEval # Num(0)

\* ========================================================================
\* Claims about tag lookups (SpecWalk)
\* ========================================================================
\* the value of the first pair of tags with key k, "" if there is none
FirstValue(tags, k) ==
  LET at == {x \in 1..Len(tags) : tags[x].Key = k} IN
  IF at = {} THEN ""
  ELSE tags[CHOOSE x \in at : \A y \in at : x <= y].Value

\* C16: for a game whose tag list holds several pairs with the same key,
\* TagValue returns the value of the first pair with that key (empty
\* string if none), and the side determination in computeACPL uses the
\* value of the first White tag and of the first Black tag.
C16_FirstTagWins ==
  /\ \A k \in {"White", "Black", "Site"} :
       TagValue(game.tags, k) = FirstValue(game.tags, k)
  /\ pc \in {"loop", "done"} =>
       /\ isWhite = EqualFold(FirstValue(game.tags, "White"), user)
       /\ isBlack = EqualFold(FirstValue(game.tags, "Black"), user)

\* what holds of the side determination: the last White and Black tags
C16_LastTagDecidesSide ==
  /\ \A k \in {"White", "Black", "Site"} :
       TagValue(game.tags, k) = FirstValue(game.tags, k)
  /\ pc \in {"loop", "done"} =>
       /\ isWhite = EqualFold(TagLoop(game.tags, "White", ""), user)
       /\ isBlack = EqualFold(TagLoop(game.tags, "Black", ""), user)

\* ========================================================================
\* Claims about the delivery of the stream (SpecScan)
\* ========================================================================
\* C17: for every finite stream and every way of cutting it into read
\* chunks (including a cut inside a delimiter), the emitted records are the
\* same as when the whole stream arrives in one read, and no emitted record
\* contains the delimiter of three consecutive line breaks.
C17_DeliveryIndependent ==
  /\ \A k \in 1..Len(tokens) : IndexDelim(tokens[k]) < 0
  /\ (pcS = "done" /\ ~fails) => tokens = SplitAll(stream)

\* a stream of exactly MaxScanTokenSize bytes whose last read reports the
\* end of the input together with its bytes: the record is emitted
C17_EmittedWhenEndComesWithTheBytes ==
  /\ pcS = "done"
  /\ ~fails
  /\ Len(stream) = MaxScanTokenSize
  /\ tokens = <<stream>>

\* the same stream with the end reported by a read of its own: no record
C17_LostWhenEndComesAlone ==
  /\ pcS = "done"
  /\ ~fails
  /\ Len(stream) = MaxScanTokenSize
  /\ IndexDelim(stream) < 0
  /\ tokens = <<>>
  /\ Err = "token too long"

\* what remains of C17 when the scanner did not give up on a long record
C17_DeliveryIndependentWithinLimit ==
  /\ \A k \in 1..Len(tokens) : IndexDelim(tokens[k]) < 0
  /\ (pcS = "done" /\ ~fails /\ Err = "nil") => tokens = SplitAll(stream)

\* ========================================================================
\* Claims about the bucket (SpecLimiter, SpecLimiterFair)
\* ========================================================================
\* C18: in every reachable state the number of tokens in the bucket is
\* between 0 and burst; a refill tick on a full bucket leaves it unchanged
\* and does not block the refill goroutine; and the number of requests
\* granted so far is at most burst plus the number of refill ticks so far.
C18_BucketBounded ==
  /\ [](/\ Len(bucket) >= 0
        /\ Len(bucket) <= burst
        /\ Cardinality(Granted) <= burst + ticks
        /\ Cardinality(Granted) + Len(bucket) = burst + refills
        /\ (Len(bucket) = burst /\ ticks < MaxTicks) => ENABLED Tick)
  /\ [][(ticks' = ticks + 1 /\ Len(bucket) = burst) =>
          /\ bucket' = bucket
          /\ refills' = refills]_vars

\* a tick found the bucket full, and later requests were granted
C18_Witness ==
  /\ ticks > refills
  /\ refills > 0
  /\ Cardinality(Granted) > burst

\* C19: from a state with an empty bucket, if refill ticks keep occurring
\* (fairness of the refill goroutine), a token eventually becomes available
\* and a request arriving after it is granted; tokens are never returned by
\* completed requests, only by refill ticks.
C19_RecoversAfterRejecting ==
  /\ (bucket = <<>> /\ ticks < MaxTicks) ~> (bucket # <<>>)
  /\ [][\A r \in Requests :
          (Handled(r) /\ bucket # <<>>) => reqs'[r].st = "serving"]_vars
  /\ [][Len(bucket') > Len(bucket) =>
          /\ ticks' = ticks + 1
          /\ reqs' = reqs]_vars
  /\ [][(\E r \in Requests : reqs[r].st = "serving" /\ reqs'[r].st = "done")
          => bucket' = bucket]_vars

\* a request was rejected on an empty bucket, a tick refilled it, and a
\* request that arrived later was granted the new token
C19_Witness ==
  \E r1, r2 \in Requests :
    /\ r1 < r2
    /\ reqs[r1].st = "rejected"
    /\ reqs[r2].st \in {"serving", "done"}
    /\ reqs[r2].tok > burst
    /\ \E r0 \in Requests : reqs[r0].st = "done"

\* ------------------------------------------------------------------------
\* SpecForm: handleForm from the check of the method to the rendering of
\* the rows; fetched is what retrieveResults returned
\* ------------------------------------------------------------------------
\* the characters of the values a Result tag takes here
Chars(v) ==
  CASE v = "1-0" -> <<"1", "-", "0">>
    [] v = "0-1" -> <<"0", "-", "1">>
    [] v = "1/2-1/2" -> <<"1", "/", "2", "-", "1", "/", "2">>
    [] v = "*" -> <<"*">>
    [] OTHER -> <<>>

ResultValues == {"1-0", "0-1", "1/2-1/2", "*"}

\* strings.SplitN(s, sep, n) for n >= 1 and a separator of one character
RECURSIVE SplitN(_, _, _)
SplitN(s, sep, n) ==
  LET at == {x \in 1..Len(s) : s[x] = sep} IN
  IF n <= 1 \/ at = {} THEN <<s>>
  ELSE LET x == CHOOSE y \in at : \A z \in at : y <= z
       IN <<SubSeq(s, 1, x - 1)>> \o SplitN(SubSeq(s, x + 1, Len(s)), sep, n - 1)

FormTagLists ==
  {<<Tag("White", "alice"), Tag("Black", "bob"), Tag("Result", v)>> :
     v \in ResultValues}
    \cup {<<Tag("White", "alice"), Tag("Black", "bob")>>}

\* the lists retrieveResults returns without error: ascending by ACPL
FetchedLists ==
  {[k \in 1..Len(ts) |->
      [Game |-> MkGame(ts[k], <<<<Ev("0.2")>>, <<Ev("0.1")>>, <<Ev("0.2")>>>>),
       ACPL |-> [nan |-> FALSE, num |-> 5 * k, den |-> 1],
       rec |-> k]] : ts \in SeqsUpTo(FormTagLists, MaxFetched)}

\* results after lines 116-120: empty when retrieveResults failed
FormResults == IF fetched.err # "nil" THEN <<>> ELSE fetched.games

\* lines 122-126
Limit == Min(maxResults, Len(FormResults))

InitForm ==
  /\ WalkOff
  /\ RankOff
  /\ ScanOff
  /\ EvalOff
  /\ LimiterOff
  /\ method \in {"GET", "POST"}
  /\ fetched \in {[games |-> gs, err |-> "nil"] : gs \in FetchedLists}
                   \cup {[games |-> <<>>, err |-> e] :
                           e \in {"get error", "bad status", "read error",
                                  "token too long"}}
  /\ rows = <<>>
  /\ message = <<>>
  /\ pcF = "start"

\* lines 93-96: only POST is handled
FormMethod ==
  /\ pcF = "start"
  /\ pcF' = IF method # "POST" THEN "not allowed" ELSE "retrieve"
  /\ UNCHANGED <<method, fetched, rows, message>>
  /\ UNCHANGED <<walkVars, rankVars, scanVars, evalVars, limVars>>

\* lines 114-130: the outcome of retrieveResults, the limit, the message
FormRetrieve ==
  /\ pcF = "retrieve"
  /\ message' = (IF fetched.err # "nil"
                 THEN <<"Failed to retrieve games: ", fetched.err>>
                 ELSE <<>>)
                \o (IF Len(FormResults) = 0 THEN <<"No games found">>
                    ELSE <<>>)
  /\ pcF' = "rows"
  /\ UNCHANGED <<method, fetched, rows>>
  /\ UNCHANGED <<walkVars, rankVars, scanVars, evalVars, limVars>>

\* lines 134-156: one iteration of the loop; resultParts[1] is out of
\* range when SplitN returns one part, and the handler panics
FormRow ==
  /\ pcF = "rows"
  /\ Len(rows) < Limit
  /\ LET idx == Len(rows)
         r == FormResults[idx + 1]
         g == r.Game
         resultParts == SplitN(Chars(TagValue(g.tags, "Result")), "-", 2)
     IN IF Len(resultParts) < 2
        THEN pcF' = "panicked" /\ UNCHANGED rows
        ELSE /\ rows' = Append(rows,
                          [Rank |-> idx + 1,
                           ACPL |-> r.ACPL,
                           White |-> TagValue(g.tags, "White"),
                           Black |-> TagValue(g.tags, "Black"),
                           ResultWhite |-> resultParts[1],
                           ResultBlack |-> resultParts[2],
                           Moves |-> g.moves \div 2])
             /\ UNCHANGED pcF
  /\ UNCHANGED <<method, fetched, message>>
  /\ UNCHANGED <<walkVars, rankVars, scanVars, evalVars, limVars>>

\* lines 158-189: the loop is over, the page is rendered
FormRender ==
  /\ pcF = "rows"
  /\ ~(Len(rows) < Limit)
  /\ pcF' = "done"
  /\ UNCHANGED <<method, fetched, rows, message>>
  /\ UNCHANGED <<walkVars, rankVars, scanVars, evalVars, limVars>>

NextForm == FormMethod \/ FormRetrieve \/ FormRow \/ FormRender

SpecForm == InitForm /\ [][NextForm]_vars

\* ========================================================================
\* Claims about handleForm (SpecForm)
\* ========================================================================
\* the rows built so far are the first ranked games in order
RowsInOrder ==
  \A k \in 1..Len(rows) :
    /\ rows[k].Rank = k
    /\ rows[k].ACPL = FormResults[k].ACPL

\* C20: for every game returned by the ranker, handleForm builds its result
\* row without failing, whatever the value of the game's Result tag
\* (including a missing tag or a value that contains no "-", such as "*");
\* the rows shown are the first min(maxResults, number of results) ranked
\* games in order, with Rank equal to position + 1.
C20_RowsBuiltWithoutFailing ==
  /\ pcF # "panicked"
  /\ Len(rows) <= Limit
  /\ RowsInOrder
  /\ pcF = "done" => Len(rows) = Limit

\* what remains of C20 when every Result tag holds a "-"
C20_RowsOfTheFirstRanked ==
  /\ Len(rows) <= Limit
  /\ RowsInOrder
  /\ pcF = "done" => Len(rows) = Limit
  /\ pcF = "panicked" =>
       \E k \in 1..Limit :
         LET v == TagValue(FormResults[k].Game.tags, "Result")
         IN v \in {"", "*"}

====
